---- MODULE Spec2Model ----
(***************************************************************************)
(* Model of src/bot.py: the Edinburgh Capitals Discord bot.                *)
(*                                                                         *)
(* One invocation of the program (the __main__ block) runs the Results     *)
(* pass (scrape_capitals_results) and then the Pregame pass (run_pregame). *)
(* The persisted state is the file posted.json; Discord is an outbox.      *)
(*                                                                         *)
(* Text is modelled at token level: a page is a sequence of raw lines, a   *)
(* raw line a sequence of tokens (whitespace between tokens is implicit,   *)
(* an empty raw line is a blank line).  A token is a word, a score such as *)
(* "3-2" (a match of SCORE_PATTERN) or a date/time such as                 *)
(* "27 Dec 2025 19:30" (a match of FIXTURE_DT_PATTERN).  Times are minutes *)
(* on the Europe/London wall clock.                                        *)
(***************************************************************************)
EXTENDS Integers, Sequences, FiniteSets, TLC

VARIABLES
    pc,        \* position of the running invocation, "idle" between invocations
    file,      \* posted.json on disk
    outbox,    \* Discord: the notifications confirmed delivered, in order
    clock,     \* the last value read from datetime.now(UK_TZ)
    results,   \* scrape_capitals_results: the deduped list of detected results
    ri,        \* scrape_capitals_results: index of the loop over results
    state,     \* the dict returned by load_state() in the running pass
    posted,    \* scrape_capitals_results: the local set posted
    nxt,       \* run_pregame: the value of scrape_next_capitals_game()
    hours_to,  \* run_pregame: fixture_dt - now, in minutes
    pre,       \* run_pregame: the local set pre
    runs,      \* number of invocations started
    run,       \* what the running (or last) invocation did so far
    prev,      \* what the invocation before it did
    saveFailed, \* the passes in which a save_state raised so far
    input,     \* the argument of a text function applied on its own
    output     \* the value of that function

vars == <<pc, file, outbox, clock, results, ri, state, posted, nxt, hours_to,
          pre, runs, run, prev, saveFailed, input, output>>

----------------------------------------------------------------------------
(* Bounds of the model *)

\* number of invocations the scheduler starts
MaxRuns == 2

----------------------------------------------------------------------------
(* Constants of the program *)

PREGAME_WINDOW_HOURS == 24

KNOWN_TEAMS == <<"Capitals", "Warriors", "Rockets", "Pirates", "Tigers", "Kestrels",
                 "Wild", "Thunder", "Lynx", "Sharks", "Stars">>

\* window[:80]: the 80 characters of the id's excerpt, scaled to tokens
IdPrefixLen == 3

\* text[:10000]: the cut of the homepage text, scaled to tokens
HomeTextCap == 40

----------------------------------------------------------------------------
(* Tokens *)

\* a word
W(s) == [k |-> "w", s |-> s, a |-> 0, b |-> 0]
\* a score token a-b, a match of SCORE_PATTERN
S(a, b) == [k |-> "score", s |-> "", a |-> a, b |-> b]
\* a date/time token, a match of FIXTURE_DT_PATTERN, that strptime parses to minute t
D(t) == [k |-> "dt", s |-> "", a |-> t, b |-> 1]
\* a match of FIXTURE_DT_PATTERN that strptime rejects (31 Feb 2026 19:30)
BadD == [k |-> "dt", s |-> "", a |-> 0, b |-> 0]
\* the literal "Upcoming Games"
Marker == W("Upcoming Games")

\* re.IGNORECASE: the roster spelling of a word, whatever its letter case
Fold(s) ==
    CASE s = "capitals" -> "Capitals"
      [] s = "CAPITALS" -> "Capitals"
      [] s = "tigers"   -> "Tigers"
      [] s = "warriors" -> "Warriors"
      [] OTHER          -> s

\* re.search(rf"\b{team}\b", text, re.IGNORECASE) on one token
MatchesTeam(tok, team) == tok.k = "w" /\ Fold(tok.s) = team

\* the substring test "Capitals" in line, on one token: case-sensitive, and a
\* longer word that contains the name passes it
ContainsCapitals(tok) == tok.k = "w" /\ tok.s \in {"Capitals", "CapitalsFC"}

Max(x, y) == IF x >= y THEN x ELSE y
Min(x, y) == IF x <= y THEN x ELSE y

RECURSIVE Flatten(_)
\* " ".join(lines)
Flatten(ls) == IF ls = <<>> THEN <<>> ELSE Head(ls) \o Flatten(Tail(ls))

\* [norm(x) for x in text.split("\n") if x.strip()]: the non-blank lines, in order
NormLines(text) == SelectSeq(text, LAMBDA x : x # <<>>)

\* " ".join(lines[max(0, i - before): min(len(lines), i + after)]), i = j - 1
Window(lines, j, before, after) ==
    Flatten(SubSeq(lines, Max(1, j - before), Min(Len(lines), j + after - 1)))

\* "Capitals" in line
IsAnchor(line) == \E n \in 1..Len(line) : ContainsCapitals(line[n])

\* SCORE_PATTERN.search(window): position of the first score token, 0 when none
ScoreSearch(window) ==
    IF \E n \in 1..Len(window) : window[n].k = "score"
    THEN CHOOSE n \in 1..Len(window) :
             /\ window[n].k = "score"
             /\ \A m \in 1..(n - 1) : window[m].k # "score"
    ELSE 0

\* a faulty variant: the names in the order they appear in the text
find_teams_in_text_textorder(text) ==
    LET named == SelectSeq(text, LAMBDA tok :
                     \E i \in 1..Len(KNOWN_TEAMS) : MatchesTeam(tok, KNOWN_TEAMS[i]))
    IN  [n \in 1..Len(named) |-> Fold(named[n].s)]

\* [team for team in KNOWN_TEAMS if re.search(...)]: the names found, in the
\* order of the roster
find_teams_in_text(text) ==
    SelectSeq(KNOWN_TEAMS, LAMBDA team : \E n \in 1..Len(text) : MatchesTeam(text[n], team))

InSeq(x, seq) == \E n \in 1..Len(seq) : seq[n] = x

\* next((t for t in teams_found if t != "Capitals"), None); "" stands for None
Opponent(teams_found) ==
    LET others == SelectSeq(teams_found, LAMBDA t : t # "Capitals")
    IN  IF others = <<>> THEN "" ELSE Head(others)

\* norm(f"{opponent}-{s1}-{s2}-{window[:80]}")
MatchId(opponent, s1, s2, window) ==
    <<opponent, s1, s2, SubSeq(window, 1, Min(Len(window), IdPrefixLen))>>

\* the message of a result
ResultMessage(opponent, s1, s2) == <<"Result Update", opponent, s1, s2>>

\* the body of the loop over the lines of the fixtures page, from the score
\* search on: what one window appends to the results list
ResultOfWindow(window) ==
    LET sm          == ScoreSearch(window)
        teams_found == find_teams_in_text(window)
        opponent    == Opponent(teams_found)
    IN  IF sm = 0 THEN <<>>
        ELSE IF ~InSeq("Capitals", teams_found) \/ Len(teams_found) < 2 THEN <<>>
        ELSE IF opponent = "" THEN <<>>
        ELSE << [id      |-> MatchId(opponent, window[sm].a, window[sm].b, window),
                 message |-> ResultMessage(opponent, window[sm].a, window[sm].b)] >>

\* one iteration of the loop over the lines of the fixtures page: what line j
\* appends to the results list
ResultOfLine(lines, j) ==
    IF ~IsAnchor(lines[j]) THEN <<>>
    ELSE ResultOfWindow(Window(lines, j, 4, 10))

RECURSIVE DetectFrom(_, _)
DetectFrom(lines, j) ==
    IF j > Len(lines) THEN <<>>
    ELSE ResultOfLine(lines, j) \o DetectFrom(lines, j + 1)

\* uniq = {r["id"]: r for r in results}; list(uniq.values()): one entry per id,
\* in the order the ids first appear, each the last result with that id
Dedupe(rs) ==
    LET first(n) == \A m \in 1..(n - 1) : rs[m].id # rs[n].id
        last(n)  == rs[CHOOSE m \in n..Len(rs) :
                          /\ rs[m].id = rs[n].id
                          /\ \A q \in (m + 1)..Len(rs) : rs[q].id # rs[n].id]
        idx      == SelectSeq([n \in 1..Len(rs) |-> n], first)
    IN  [n \in 1..Len(idx) |-> last(idx[n])]

\* lines 130-165 of scrape_capitals_results: the results detected on a page
DetectResults(html) == Dedupe(DetectFrom(NormLines(html), 1))

----------------------------------------------------------------------------
(* scrape_next_capitals_game *)

None == [some |-> FALSE, dt |-> 0, opponent |-> ""]
Some(dt, opponent) == [some |-> TRUE, dt |-> dt, opponent |-> opponent]

\* "Upcoming Games" in text
HasMarker(text) == \E n \in 1..Len(text) : InSeq(Marker, text[n])

\* text.split("Upcoming Games", 1)[1]: what follows the first occurrence
AfterMarker(text) ==
    LET n    == CHOOSE n \in 1..Len(text) :
                    /\ InSeq(Marker, text[n])
                    /\ \A m \in 1..(n - 1) : ~InSeq(Marker, text[m])
        line == text[n]
        c    == CHOOSE c \in 1..Len(line) :
                    /\ line[c] = Marker
                    /\ \A d \in 1..(c - 1) : line[d] # Marker
    IN  <<SubSeq(line, c + 1, Len(line))>> \o SubSeq(text, n + 1, Len(text))

RECURSIVE Truncate(_, _)
\* text[:cap]
Truncate(text, cap) ==
    IF text = <<>> \/ cap <= 0 THEN <<>>
    ELSE IF Len(Head(text)) >= cap THEN <<SubSeq(Head(text), 1, cap)>>
    ELSE <<Head(text)>> \o Truncate(Tail(text), cap - Len(Head(text)))

\* parse_fixture_datetimes: the date/time tokens strptime accepts, in order
parse_fixture_datetimes(text) ==
    LET toks == SelectSeq(text, LAMBDA tok : tok.k = "dt" /\ tok.b = 1)
    IN  [n \in 1..Len(toks) |-> toks[n].a]

\* sorted(xs)[0] of a non-empty list of integers
Earliest(xs) == CHOOSE x \in {xs[n] : n \in 1..Len(xs)} :
                    \A n \in 1..Len(xs) : x <= xs[n]

\* a faulty variant: the windows that hold a score are not skipped
CandidateOfWindow_noskip(window, now) ==
    LET dts         == parse_fixture_datetimes(window)
        future_dts  == SelectSeq(dts, LAMBDA dt : dt > now)
        teams_found == find_teams_in_text(window)
        opponent    == Opponent(teams_found)
    IN  IF dts = <<>> THEN <<>>
        ELSE IF future_dts = <<>> THEN <<>>
        ELSE IF ~InSeq("Capitals", teams_found) \/ Len(teams_found) < 2 THEN <<>>
        ELSE IF opponent = "" THEN <<>>
        ELSE << Some(Earliest(future_dts), opponent) >>

\* the body of the loop over the lines of the homepage, from the score search
\* on: what one window appends to the candidates list
CandidateOfWindow(window, now) ==
    LET dts         == parse_fixture_datetimes(window)
        future_dts  == SelectSeq(dts, LAMBDA dt : dt > now)
        teams_found == find_teams_in_text(window)
        opponent    == Opponent(teams_found)
    IN  IF ScoreSearch(window) # 0 THEN <<>>
        ELSE IF dts = <<>> THEN <<>>
        ELSE IF future_dts = <<>> THEN <<>>
        ELSE IF ~InSeq("Capitals", teams_found) \/ Len(teams_found) < 2 THEN <<>>
        ELSE IF opponent = "" THEN <<>>
        ELSE << Some(Earliest(future_dts), opponent) >>

\* one iteration of the loop over the lines of the homepage: what line j
\* appends to the candidates list
CandidateOfLine(lines, j, now) ==
    IF ~IsAnchor(lines[j]) THEN <<>>
    ELSE CandidateOfWindow(Window(lines, j, 8, 20), now)

RECURSIVE CandidatesFrom(_, _, _)
CandidatesFrom(lines, j, now) ==
    IF j > Len(lines) THEN <<>>
    ELSE CandidateOfLine(lines, j, now) \o CandidatesFrom(lines, j + 1, now)

\* a faulty variant: the candidate of the first qualifying window
EarliestCandidate_first(candidates) == candidates[1]

\* sorted(candidates, key=lambda x: x[0])[0]: the first candidate, in list
\* order, among those with the earliest kickoff (sorted is stable)
EarliestCandidate(candidates) ==
    candidates[CHOOSE n \in 1..Len(candidates) :
                   /\ \A m \in 1..Len(candidates) : candidates[n].dt <= candidates[m].dt
                   /\ \A m \in 1..(n - 1) : candidates[m].dt > candidates[n].dt]

\* lines 199-245 of scrape_next_capitals_game, on the fetched text
ScrapeNext(html, now) ==
    LET text0      == IF HasMarker(html) THEN AfterMarker(html) ELSE html
        text       == Truncate(text0, HomeTextCap)
        candidates == CandidatesFrom(NormLines(text), 1, now)
    IN  IF candidates = <<>> THEN None ELSE EarliestCandidate(candidates)

\* f"{fixture_dt.isoformat()}|{opponent}"
PreId(fixture_dt, opponent) == <<fixture_dt, opponent>>

\* the Game Day Alert message
PregameMessage(fixture_dt, opponent) == <<"Game Day Alert", opponent, fixture_dt>>

----------------------------------------------------------------------------
(* The pages the club's site serves, and the clock *)

Filler == <<W("SNL")>>

\* the fixtures page: no result yet
F0 == << <<W("Fixtures")>>, <<>>, <<W("Capitals"), W("vs"), W("Tigers")>>, <<D(3000)>> >>
\* the fixtures page: one result, seen from two neighbouring anchor lines
F1 == << <<W("Fixtures")>>, <<>>,
         <<W("Capitals"), S(3, 2), W("Warriors")>>,
         <<W("Capitals"), W("win")>> >>
\* the fixtures page: two results, more than four lines apart
F2 == << <<W("Capitals"), S(3, 2), W("Warriors")>>,
         Filler, <<>>, Filler, Filler, Filler,
         <<W("Capitals"), S(1, 0), W("Tigers")>> >>

FixturePages == {"F0", "F1", "F2"}
FixturesHtml(name) == CASE name = "F0" -> F0 [] name = "F1" -> F1 [] OTHER -> F2

\* Kickoffs: the game against the Tigers at minute 3000 (50 hours after the
\* model's epoch), the game against the Warriors at minute 4000.

\* the homepage: only a recent result near the name
H0 == << <<W("Latest")>>, <<W("Capitals"), S(3, 2), W("Warriors")>>, <<D(3000)>> >>
\* the homepage: the game against the Tigers is next
H1 == << <<W("News"), D(6000)>>, <<Marker>>, <<>>,
         <<W("Capitals"), W("vs"), W("tigers")>>, <<BadD, D(3000)>> >>
\* the homepage: the game against the Warriors is next
H2 == << <<Marker>>, <<W("Warriors"), W("vs"), W("Capitals")>>, <<D(4000)>> >>

HomePages == {"H0", "H1", "H2"}
HomeHtml(name) == CASE name = "H0" -> H0 [] name = "H1" -> H1 [] OTHER -> H2

\* the instants at which the clock is read: 24 h, 23.5 h, 22.5 h and 2 h
\* before the Tigers game, and its kickoff; the Warriors game is more than 24
\* hours away at the first three
ClockValues == {1560, 1590, 1650, 2880, 3000}

\* the second read of the clock in one invocation, a moment after the first:
\* the same instant or the next one
SoonAfter(t) == {u \in ClockValues : u >= t /\ \A v \in ClockValues : ~(t < v /\ v < u)}

----------------------------------------------------------------------------
(* posted.json: load_state and save_state *)

StateKeys == {"posted", "pregame"}

\* the new state of load_state: {"posted": [], "pregame": []}
EmptyState == [keys |-> StateKeys, posted |-> {}, pregame |-> {}]

\* The file is absent, holds text that is no JSON ("badjson"), holds JSON that
\* is no object of lists ("nondict": [], null, 5, {"posted": 5}), or holds an
\* object ("dict") with some of the keys posted and pregame and possibly a key
\* the program does not know ("other").  The lists are kept as sets: the
\* program writes them sorted and reads them with set().
FileKinds == {"absent", "badjson", "nondict", "dict"}
FileKeys == StateKeys \cup {"other"}

\* the documents found at the first invocation: {}, one without the key
\* pregame and with an unknown key, and one with both keys; the lists are empty
InitKeys == {{}, {"posted", "other"}, StateKeys}

\* load_state(): raised is TRUE when an exception leaves load_state (or the
\* set(state.get(...)) that follows it): the except clause catches only
\* FileNotFoundError and json.JSONDecodeError, not the TypeError or
\* AttributeError of a document that is no object of lists
load_state(f) ==
    IF f.kind = "absent" THEN [raised |-> FALSE, state |-> EmptyState]
    ELSE IF f.kind = "badjson" THEN [raised |-> FALSE, state |-> EmptyState]
    ELSE IF f.kind = "nondict" THEN [raised |-> TRUE, state |-> EmptyState]
    ELSE [raised |-> FALSE,
          state  |-> [keys    |-> f.keys \cup StateKeys,
                      posted  |-> IF "posted" \in f.keys THEN f.posted ELSE {},
                      pregame |-> IF "pregame" \in f.keys THEN f.pregame ELSE {}]]

\* save_state(state) returns: the file after json.dump
save_state(st) ==
    [kind |-> "dict", keys |-> st.keys, posted |-> st.posted, pregame |-> st.pregame]

\* save_state(state) raises: open(STATE_FILE, "w") failed and the file is as
\* it was, or the write failed after open truncated the file
FailedSave(f) ==
    {f, [kind |-> "badjson", keys |-> {}, posted |-> {}, pregame |-> {}]}

----------------------------------------------------------------------------
(* __main__ *)

\* a faulty variant: the two calls of __main__ in the other order
MainPasses_swapped == <<"pregame", "results">>

\* scrape_capitals_results() ; run_pregame()
MainPasses == <<"results", "pregame">>

\* where a pass starts
EntryPc(pass) == IF pass = "results" THEN "r_fetch" ELSE "p_fetch"

\* where control goes when a pass returns: the next call of __main__, or the
\* end of the process
ReturnPc(pass) ==
    LET n == CHOOSE n \in 1..Len(MainPasses) : MainPasses[n] = pass
    IN  IF n < Len(MainPasses) THEN EntryPc(MainPasses[n + 1]) ELSE "idle"

\* the record of an invocation when a pass returns
Returned(r, pass) ==
    LET n == CHOOSE n \in 1..Len(MainPasses) : MainPasses[n] = pass
    IN  IF n < Len(MainPasses)
        THEN [r EXCEPT !.passes = Append(@, MainPasses[n + 1])]
        ELSE [r EXCEPT !.exit = "ok"]

\* the record of an invocation when an exception leaves a pass: nothing in
\* __main__ catches it, the process ends with a traceback
Raised(r, what) == [r EXCEPT !.exit = what]

NewRun ==
    [passes |-> <<MainPasses[1]>>, exit |-> "running",
     rFetch |-> "none", fixt |-> "none", rDone |-> FALSE,
     pFetch |-> "none", pSeen |-> "none", pDone |-> FALSE,
     loadsR |-> 0, savesR |-> 0, loadsP |-> 0, savesP |-> 0,
     rPosts |-> 0, pPosts |-> 0, pDup |-> FALSE,
     rFailed |-> {}, pFailed |-> {}]

\* no text function is applied on its own while the program runs
NoInput == [kind |-> "none", text |-> <<>>, now |-> 0]
NoOutput == [fn |-> "none"]

NoLocals ==
    /\ results' = <<>>
    /\ ri' = 0
    /\ state' = EmptyState
    /\ posted' = {}
    /\ nxt' = None
    /\ hours_to' = 0
    /\ pre' = {}

Init ==
    /\ pc = "idle"
    /\ \E k \in FileKinds, keys \in InitKeys :
           /\ (k # "dict") => keys = {}
           /\ file = [kind |-> k, keys |-> keys, posted |-> {}, pregame |-> {}]
    /\ outbox = <<>>
    /\ clock = 0
    /\ results = <<>>
    /\ ri = 0
    /\ state = EmptyState
    /\ posted = {}
    /\ nxt = None
    /\ hours_to = 0
    /\ pre = {}
    /\ runs = 0
    /\ run = [NewRun EXCEPT !.passes = <<>>, !.exit = "none"]
    /\ prev = [fixt |-> "none", rDone |-> FALSE, exit |-> "none", file |-> file]
    /\ saveFailed = {}
    /\ input = NoInput
    /\ output = NoOutput

\* the scheduler starts the program; invocations are serialized
Start ==
    /\ pc = "idle"
    /\ runs < MaxRuns
    /\ runs' = runs + 1
    /\ prev' = [fixt |-> run.fixt, rDone |-> run.rDone, exit |-> run.exit, file |-> file]
    /\ run' = NewRun
    /\ pc' = EntryPc(MainPasses[1])
    /\ NoLocals
    /\ UNCHANGED <<input, output, file, outbox, clock, saveFailed>>

----------------------------------------------------------------------------
(* post_to_discord *)

\* a notification Discord accepted; id is the event the message is about
Delivered(kind, message, id, mins) ==
    [kind |-> kind, message |-> message, id |-> id, mins |-> mins]

\* the record of the notifications Discord accepted, after one more: an entry
\* is kept for each of the first MaxRuns deliveries of a notification, which
\* is every delivery as long as no more than MaxRuns invocations run
Logged(box, e) ==
    IF Cardinality({n \in 1..Len(box) : box[n] = e}) < MaxRuns
    THEN Append(box, e)
    ELSE box

\* the ids of the events of a kind for which a notification was delivered
DeliveredIds(kind) ==
    {outbox[n].id : n \in {m \in 1..Len(outbox) : outbox[m].kind = kind}}

\* how many notifications were delivered for an event
Deliveries(kind, id) ==
    Cardinality({n \in 1..Len(outbox) : outbox[n].kind = kind /\ outbox[n].id = id})

----------------------------------------------------------------------------
(* scrape_capitals_results *)

\* a faulty variant: no try/except around the fetch, the exception leaves the
\* pass and the program
ResultsFetchFail_uncaught ==
    /\ pc = "r_fetch"
    /\ pc' = "idle"
    /\ run' = Raised([run EXCEPT !.rFetch = "failed"], "fetch_error")
    /\ NoLocals
    /\ UNCHANGED <<input, output, file, outbox, clock, runs, prev, saveFailed>>

\* requests.get(FIXTURES_URL) raises RequestException: logged, the pass returns
ResultsFetchFail ==
    /\ pc = "r_fetch"
    /\ pc' = ReturnPc("results")
    /\ run' = Returned([run EXCEPT !.rFetch = "failed"], "results")
    /\ NoLocals
    /\ UNCHANGED <<input, output, file, outbox, clock, runs, prev, saveFailed>>

\* the page is fetched and scanned; with no result detected the pass returns
ResultsFetchOk(name) ==
    LET rs == DetectResults(FixturesHtml(name))
        r1 == [run EXCEPT !.rFetch = "ok", !.fixt = name]
    IN  /\ pc = "r_fetch"
        /\ IF rs = <<>>
           THEN /\ pc' = ReturnPc("results")
                /\ run' = Returned([r1 EXCEPT !.rDone = TRUE], "results")
                /\ NoLocals
           ELSE /\ pc' = "r_load"
                /\ run' = r1
                /\ results' = rs
                /\ UNCHANGED <<ri, state, posted, nxt, hours_to, pre>>
        /\ UNCHANGED <<input, output, file, outbox, clock, runs, prev, saveFailed>>

\* a faulty variant: the pass starts from a new state instead of loading it
ResultsLoad_skipped ==
    /\ pc = "r_load"
    /\ pc' = "r_loop"
    /\ state' = EmptyState
    /\ posted' = {}
    /\ ri' = 1
    /\ UNCHANGED <<input, output, file, outbox, clock, results, nxt, hours_to, pre, runs, run, prev,
                   saveFailed>>

\* state = load_state(); posted = set(state.get("posted", []))
ResultsLoad ==
    LET l == load_state(file)
    IN  /\ pc = "r_load"
        /\ IF l.raised
           THEN /\ pc' = "idle"
                /\ run' = Raised([run EXCEPT !.loadsR = @ + 1], "load_error")
                /\ NoLocals
           ELSE /\ pc' = "r_loop"
                /\ run' = [run EXCEPT !.loadsR = @ + 1]
                /\ state' = l.state
                /\ posted' = l.state.posted
                /\ ri' = 1
                /\ UNCHANGED <<results, nxt, hours_to, pre>>
        /\ UNCHANGED <<input, output, file, outbox, clock, runs, prev, saveFailed>>

\* a faulty variant: the membership test forgotten
AlreadyPosted_never(id, ids) == FALSE

\* if r["id"] in posted: continue
AlreadyPosted(id, ids) == id \in ids

\* the loop has a result left
InLoop == pc = "r_loop" /\ ri <= Len(results)

ResultsSkip ==
    /\ InLoop
    /\ AlreadyPosted(results[ri].id, posted)
    /\ ri' = ri + 1
    /\ UNCHANGED <<input, output, pc, file, outbox, clock, results, state, posted, nxt, hours_to,
                   pre, runs, run, prev, saveFailed>>

\* post_to_discord(r["message"]) returns; posted.add(r["id"]); new_posts += 1
ResultsPostOk ==
    /\ InLoop
    /\ ~AlreadyPosted(results[ri].id, posted)
    /\ outbox' = Logged(outbox, Delivered("result", results[ri].message, results[ri].id, 0))
    /\ posted' = posted \cup {results[ri].id}
    /\ run' = [run EXCEPT !.rPosts = @ + 1]
    /\ ri' = ri + 1
    /\ UNCHANGED <<input, output, pc, file, clock, results, state, nxt, hours_to, pre, runs, prev,
                   saveFailed>>

\* a faulty variant: the failure is swallowed and the id recorded all the same
ResultsPostFail_swallowed ==
    /\ InLoop
    /\ ~AlreadyPosted(results[ri].id, posted)
    /\ posted' = posted \cup {results[ri].id}
    /\ run' = [run EXCEPT !.rFailed = {results[ri].id}]
    /\ ri' = ri + 1
    /\ UNCHANGED <<input, output, pc, file, outbox, clock, results, state, nxt, hours_to, pre, runs,
                   prev, saveFailed>>

\* a faulty variant: the ids delivered so far are saved before the failure
\* leaves the pass
ResultsPostFail_saved ==
    /\ InLoop
    /\ ~AlreadyPosted(results[ri].id, posted)
    /\ file' = save_state([state EXCEPT !.posted = posted])
    /\ pc' = "idle"
    /\ run' = Raised([run EXCEPT !.rFailed = {results[ri].id}], "delivery_error")
    /\ NoLocals
    /\ UNCHANGED <<input, output, outbox, clock, runs, prev, saveFailed>>

\* post_to_discord(r["message"]) raises RequestException: it leaves the loop,
\* the pass and the program
ResultsPostFail ==
    /\ InLoop
    /\ ~AlreadyPosted(results[ri].id, posted)
    /\ pc' = "idle"
    /\ run' = Raised([run EXCEPT !.rFailed = {results[ri].id}], "delivery_error")
    /\ NoLocals
    /\ UNCHANGED <<input, output, file, outbox, clock, runs, prev, saveFailed>>

\* a faulty variant: the saved document is built anew from the posted set, the
\* rest of the loaded state is dropped
ResultsSaveOk_rebuilt ==
    /\ pc = "r_loop"
    /\ ri > Len(results)
    /\ file' = save_state([EmptyState EXCEPT !.posted = posted])
    /\ pc' = ReturnPc("results")
    /\ run' = Returned([run EXCEPT !.savesR = @ + 1, !.rDone = TRUE], "results")
    /\ NoLocals
    /\ UNCHANGED <<input, output, outbox, clock, runs, prev, saveFailed>>

\* state["posted"] = sorted(posted); save_state(state) returns
ResultsSaveOk ==
    /\ pc = "r_loop"
    /\ ri > Len(results)
    /\ file' = save_state([state EXCEPT !.posted = posted])
    /\ pc' = ReturnPc("results")
    /\ run' = Returned([run EXCEPT !.savesR = @ + 1, !.rDone = TRUE], "results")
    /\ NoLocals
    /\ UNCHANGED <<input, output, outbox, clock, runs, prev, saveFailed>>

\* save_state(state) raises
ResultsSaveFail ==
    /\ pc = "r_loop"
    /\ ri > Len(results)
    /\ \E f \in FailedSave(file) : file' = f
    /\ pc' = "idle"
    /\ run' = Raised([run EXCEPT !.savesR = @ + 1], "save_error")
    /\ saveFailed' = saveFailed \cup {"results"}
    /\ NoLocals
    /\ UNCHANGED <<input, output, outbox, clock, runs, prev>>

----------------------------------------------------------------------------
(* run_pregame *)

\* requests.get(HOME_URL) raises RequestException: scrape_next_capitals_game
\* returns None, run_pregame logs and returns
PregameFetchFail ==
    /\ pc = "p_fetch"
    /\ pc' = ReturnPc("pregame")
    /\ run' = Returned([run EXCEPT !.pFetch = "failed"], "pregame")
    /\ NoLocals
    /\ UNCHANGED <<input, output, file, outbox, clock, runs, prev, saveFailed>>

\* nxt = scrape_next_capitals_game(), which reads the clock; if not nxt: return
PregameFetchOk(name, now) ==
    LET n  == ScrapeNext(HomeHtml(name), now)
        r1 == [run EXCEPT !.pFetch = "ok"]
    IN  /\ pc = "p_fetch"
        /\ now >= clock
        /\ clock' = now
        /\ IF ~n.some
           THEN /\ pc' = ReturnPc("pregame")
                /\ run' = Returned([r1 EXCEPT !.pSeen = "nogame", !.pDone = TRUE],
                                    "pregame")
                /\ NoLocals
           ELSE /\ pc' = "p_check"
                /\ run' = r1
                /\ nxt' = n
                /\ UNCHANGED <<results, ri, state, posted, hours_to, pre>>
        /\ UNCHANGED <<input, output, file, outbox, runs, prev, saveFailed>>

\* a faulty variant: the comparison inverted
OutsideWindow_inverted(mins) == mins < PREGAME_WINDOW_HOURS * 60

\* if hours_to > PREGAME_WINDOW_HOURS, with hours_to in minutes
OutsideWindow(mins) == mins > PREGAME_WINDOW_HOURS * 60

\* now = datetime.now(UK_TZ); hours_to = ...; the window test
PregameCheck(now) ==
    /\ pc = "p_check"
    /\ now \in SoonAfter(clock)
    /\ clock' = now
    /\ IF OutsideWindow(nxt.dt - now)
       THEN /\ pc' = ReturnPc("pregame")
            /\ run' = Returned([run EXCEPT !.pSeen = "outside", !.pDone = TRUE],
                                "pregame")
            /\ NoLocals
       ELSE /\ pc' = "p_load"
            /\ hours_to' = nxt.dt - now
            /\ run' = [run EXCEPT !.pSeen = "inside"]
            /\ UNCHANGED <<results, ri, state, posted, nxt, pre>>
    /\ UNCHANGED <<input, output, file, outbox, runs, prev, saveFailed>>

\* state = load_state(); pre = set(...); if pre_id in pre: return
PregameLoad ==
    LET l == load_state(file)
    IN  /\ pc = "p_load"
        /\ IF l.raised
           THEN /\ pc' = "idle"
                /\ run' = Raised([run EXCEPT !.loadsP = @ + 1], "load_error")
                /\ NoLocals
           ELSE IF AlreadyPosted(PreId(nxt.dt, nxt.opponent), l.state.pregame)
           THEN /\ pc' = ReturnPc("pregame")
                /\ run' = Returned([run EXCEPT !.loadsP = @ + 1, !.pDup = TRUE,
                                               !.pDone = TRUE], "pregame")
                /\ NoLocals
           ELSE /\ pc' = "p_post"
                /\ run' = [run EXCEPT !.loadsP = @ + 1]
                /\ state' = l.state
                /\ pre' = l.state.pregame
                /\ UNCHANGED <<results, ri, posted, nxt, hours_to>>
        /\ UNCHANGED <<input, output, file, outbox, clock, runs, prev, saveFailed>>

\* post_to_discord(msg) returns
PregamePostOk ==
    /\ pc = "p_post"
    /\ outbox' = Logged(outbox, Delivered("pregame", PregameMessage(nxt.dt, nxt.opponent),
                                          PreId(nxt.dt, nxt.opponent), hours_to))
    /\ run' = [run EXCEPT !.pPosts = @ + 1]
    /\ pc' = "p_save"
    /\ UNCHANGED <<input, output, file, clock, results, ri, state, posted, nxt, hours_to, pre, runs,
                   prev, saveFailed>>

\* post_to_discord(msg) raises RequestException
PregamePostFail ==
    /\ pc = "p_post"
    /\ pc' = "idle"
    /\ run' = Raised([run EXCEPT !.pFailed = {PreId(nxt.dt, nxt.opponent)}],
                     "delivery_error")
    /\ NoLocals
    /\ UNCHANGED <<input, output, file, outbox, clock, runs, prev, saveFailed>>

\* a faulty variant: pre.add(pre_id) forgotten
PregameSaveOk_noadd ==
    /\ pc = "p_save"
    /\ file' = save_state([state EXCEPT !.pregame = pre])
    /\ pc' = ReturnPc("pregame")
    /\ run' = Returned([run EXCEPT !.savesP = @ + 1, !.pDone = TRUE], "pregame")
    /\ NoLocals
    /\ UNCHANGED <<input, output, outbox, clock, runs, prev, saveFailed>>

\* a faulty variant: the saved document is built anew from the pregame set,
\* the result ids that were loaded are dropped
PregameSaveOk_rebuilt ==
    /\ pc = "p_save"
    /\ file' = save_state([EmptyState EXCEPT
                               !.pregame = pre \cup {PreId(nxt.dt, nxt.opponent)}])
    /\ pc' = ReturnPc("pregame")
    /\ run' = Returned([run EXCEPT !.savesP = @ + 1, !.pDone = TRUE], "pregame")
    /\ NoLocals
    /\ UNCHANGED <<input, output, outbox, clock, runs, prev, saveFailed>>

\* pre.add(pre_id); state["pregame"] = sorted(pre); save_state(state) returns
PregameSaveOk ==
    /\ pc = "p_save"
    /\ file' = save_state([state EXCEPT
                               !.pregame = pre \cup {PreId(nxt.dt, nxt.opponent)}])
    /\ pc' = ReturnPc("pregame")
    /\ run' = Returned([run EXCEPT !.savesP = @ + 1, !.pDone = TRUE], "pregame")
    /\ NoLocals
    /\ UNCHANGED <<input, output, outbox, clock, runs, prev, saveFailed>>

\* save_state(state) raises
PregameSaveFail ==
    /\ pc = "p_save"
    /\ \E f \in FailedSave(file) : file' = f
    /\ pc' = "idle"
    /\ run' = Raised([run EXCEPT !.savesP = @ + 1], "save_error")
    /\ saveFailed' = saveFailed \cup {"pregame"}
    /\ NoLocals
    /\ UNCHANGED <<input, output, outbox, clock, runs, prev>>

----------------------------------------------------------------------------

Next ==
    \/ Start
    \/ ResultsFetchFail
    \/ \E name \in FixturePages : ResultsFetchOk(name)
    \/ ResultsLoad
    \/ ResultsSkip
    \/ ResultsPostOk
    \/ ResultsPostFail
    \/ ResultsSaveOk
    \/ ResultsSaveFail
    \/ PregameFetchFail
    \/ \E name \in HomePages, now \in ClockValues : PregameFetchOk(name, now)
    \/ \E now \in ClockValues : PregameCheck(now)
    \/ PregameLoad
    \/ PregamePostOk
    \/ PregamePostFail
    \/ PregameSaveOk
    \/ PregameSaveFail

Spec == Init /\ [][Next]_vars

----------------------------------------------------------------------------
(* The program invoked again and again by its scheduler, over a fixtures page
   that keeps showing its results and a homepage that lists no fixture *)

\* the fixtures page of every invocation
LivePages == {"F2"}

\* the homepage of every invocation
LiveHomePages == {"H0"}

\* the scheduler starts the program once more; the invocations are counted
\* up to MaxRuns
StartAgain ==
    /\ pc = "idle"
    /\ runs' = Min(runs + 1, MaxRuns)
    /\ prev' = [fixt |-> run.fixt, rDone |-> run.rDone, exit |-> run.exit, file |-> file]
    /\ run' = NewRun
    /\ pc' = EntryPc(MainPasses[1])
    /\ NoLocals
    /\ UNCHANGED <<input, output, file, outbox, clock, saveFailed>>

NextLive ==
    \/ StartAgain
    \/ \E name \in LivePages : ResultsFetchOk(name)
    \/ ResultsLoad
    \/ ResultsSkip
    \/ ResultsPostOk
    \/ ResultsPostFail
    \/ ResultsSaveOk
    \/ \E name \in LiveHomePages, now \in ClockValues : PregameFetchOk(name, now)

\* the delivery of the notification of one result succeeds
ResultsPostOkOf(id) == ResultsPostOk /\ results[ri].id = id

\* the ids of the results a fixtures page shows
DetectedIds(name) ==
    {DetectResults(FixturesHtml(name))[n].id :
        n \in 1..Len(DetectResults(FixturesHtml(name)))}

\* invocations recur and every step that does not depend on Discord is
\* taken; a delivery that is attempted again and again succeeds in the end
FairLive ==
    /\ WF_vars(StartAgain)
    /\ WF_vars(\E name \in LivePages : ResultsFetchOk(name))
    /\ WF_vars(ResultsLoad)
    /\ WF_vars(ResultsSkip)
    /\ WF_vars(ResultsSaveOk)
    /\ WF_vars(\E name \in LiveHomePages, now \in ClockValues : PregameFetchOk(name, now))
    /\ \A id \in UNION {DetectedIds(name) : name \in LivePages} :
           SF_vars(ResultsPostOkOf(id))

SpecLive == Init /\ [][NextLive]_vars /\ FairLive

----------------------------------------------------------------------------
(* The text functions of the two scrapes, applied on their own to bounded
   texts.  The program is not running: its variables stay as constructed. *)

\* the longest fixtures page, in lines
MaxPageLines == 6

\* the lines a fixtures page is made of: two headings, a result, a comment
PageLines == { <<W("SNL")>>, <<W("Fixtures")>>,
               <<W("Capitals"), S(3, 2), W("Warriors")>>,
               <<W("Capitals"), W("win")>> }

\* soup.get_text("\n") of a fixtures page: its lines
PageTexts == UNION {[1..m -> PageLines] : m \in 1..MaxPageLines}

\* the longest window, in tokens
MaxWindowTokens == 4

\* the tokens a window is made of: the tracked name, in another letter case
\* and inside a longer word, two opponents, a score, three kickoffs and a
\* date strptime rejects
WindowTokens == { W("Capitals"), W("capitals"), W("CapitalsFC"), W("Warriors"),
                  W("Tigers"), S(3, 2), D(100), D(200), D(300), BadD }

\* the window of a page of one line: that line
WindowTexts == UNION {[1..m -> WindowTokens] : m \in 1..MaxWindowTokens}

\* datetime.now(UK_TZ) when a text is scanned
NowValues == {150, 200}

\* the most lines between the two fixtures of a homepage
MaxGap == 19

RECURSIVE Fillers(_)
Fillers(n) == IF n = 0 THEN <<>> ELSE <<Filler>> \o Fillers(n - 1)

\* soup.get_text("\n") of a homepage that lists two fixtures, gap lines apart
HomeText(d1, o1, gap, d2, o2) ==
    << <<W("Capitals"), W("vs"), W(o1), d1>> >> \o Fillers(gap)
        \o << <<W("Capitals"), W("vs"), W(o2), d2>> >>

HomeTexts ==
    { HomeText(d1, o1, gap, d2, o2) :
          d1 \in {D(100), D(200), D(300), BadD}, d2 \in {D(200), D(300), BadD},
          o1 \in {"Tigers", "Warriors"}, o2 \in {"Tigers", "Warriors"},
          gap \in 0..MaxGap }

\* the longest raw text, in characters
MaxChars == 5

\* the characters of a raw text: two letters, a space, a tab, a line break
Chars == {"a", "b", " ", "\t", "\n"}

\* soup.get_text("\n") as a sequence of characters
RawTexts == UNION {[1..m -> Chars] : m \in 0..MaxChars}

\* a character \s matches
IsSpace(c) == c \in {" ", "\t", "\n"}

RECURSIVE Split(_)
\* text.split("\n")
Split(text) ==
    IF \A n \in 1..Len(text) : text[n] # "\n" THEN <<text>>
    ELSE LET n == CHOOSE n \in 1..Len(text) :
                      /\ text[n] = "\n"
                      /\ \A m \in 1..(n - 1) : text[m] # "\n"
         IN  <<SubSeq(text, 1, n - 1)>> \o Split(SubSeq(text, n + 1, Len(text)))

\* s.strip()
Strip(s) ==
    LET inked == {n \in 1..Len(s) : ~IsSpace(s[n])}
    IN  IF inked = {} THEN <<>>
        ELSE SubSeq(s, CHOOSE n \in inked : \A m \in inked : n <= m,
                       CHOOSE n \in inked : \A m \in inked : n >= m)

\* re.sub(r"\s+", " ", s): every maximal run of whitespace becomes one space
Collapse(s) ==
    LET keep == SelectSeq([n \in 1..Len(s) |-> n],
                          LAMBDA n : ~IsSpace(s[n]) \/ n = 1 \/ ~IsSpace(s[n - 1]))
    IN  [k \in 1..Len(keep) |-> IF IsSpace(s[keep[k]]) THEN " " ELSE s[keep[k]]]

\* a faulty variant: the runs are collapsed, the ends are not stripped
norm_nostrip(s) == Collapse(s)

norm(s) == Strip(Collapse(s))

\* [norm(x) for x in text.split("\n") if x.strip()]
NormalizedLines(text) ==
    LET kept == SelectSeq(Split(text), LAMBDA x : Strip(x) # <<>>)
    IN  [n \in 1..Len(kept) |-> norm(kept[n])]

ProgramIdle ==
    /\ pc = "idle"
    /\ file = [kind |-> "absent", keys |-> {}, posted |-> {}, pregame |-> {}]
    /\ outbox = <<>>
    /\ clock = 0
    /\ results = <<>>
    /\ ri = 0
    /\ state = EmptyState
    /\ posted = {}
    /\ nxt = None
    /\ hours_to = 0
    /\ pre = {}
    /\ runs = 0
    /\ run = [NewRun EXCEPT !.passes = <<>>, !.exit = "none"]
    /\ prev = [fixt |-> "none", rDone |-> FALSE, exit |-> "none", file |-> file]
    /\ saveFailed = {}

InitText ==
    /\ ProgramIdle
    /\ output = NoOutput
    /\ \/ \E text \in PageTexts : input = [kind |-> "page", text |-> text, now |-> 0]
       \/ \E text \in WindowTexts, now \in NowValues :
              input = [kind |-> "window", text |-> text, now |-> now]
       \/ \E text \in HomeTexts, now \in NowValues :
              input = [kind |-> "home", text |-> text, now |-> now]
       \/ \E text \in RawTexts : input = [kind |-> "chars", text |-> text, now |-> 0]

\* lines 130-165 of scrape_capitals_results on the text of a fixtures page
ApplyResults ==
    /\ input.kind = "page"
    /\ output = NoOutput
    /\ output' = [fn |-> "results", results |-> DetectResults(input.text)]
    /\ UNCHANGED <<input, pc, file, outbox, clock, results, ri, state, posted, nxt,
                   hours_to, pre, runs, run, prev, saveFailed>>

\* the two loop bodies on the same text: a page of one line, whose window is
\* that line
ApplyExtractors ==
    /\ input.kind = "window"
    /\ output = NoOutput
    /\ output' = [fn         |-> "extract",
                  result     |-> ResultOfWindow(input.text),
                  candidate  |-> CandidateOfWindow(input.text, input.now),
                  lineResult |-> ResultOfLine(<<input.text>>, 1)]
    /\ UNCHANGED <<input, pc, file, outbox, clock, results, ri, state, posted, nxt,
                   hours_to, pre, runs, run, prev, saveFailed>>

\* lines 199-245 of scrape_next_capitals_game on the text of a homepage
ApplyScrapeNext ==
    /\ input.kind = "home"
    /\ output = NoOutput
    /\ output' = [fn |-> "scrape", nxt |-> ScrapeNext(input.text, input.now)]
    /\ UNCHANGED <<input, pc, file, outbox, clock, results, ri, state, posted, nxt,
                   hours_to, pre, runs, run, prev, saveFailed>>

\* line 131 of scrape_capitals_results (and line 207 of
\* scrape_next_capitals_game) on a raw text
ApplyNorm ==
    /\ input.kind = "chars"
    /\ output = NoOutput
    /\ output' = [fn |-> "norm", lines |-> NormalizedLines(input.text)]
    /\ UNCHANGED <<input, pc, file, outbox, clock, results, ri, state, posted, nxt,
                   hours_to, pre, runs, run, prev, saveFailed>>

NextText ==
    \/ ApplyResults
    \/ ApplyExtractors
    \/ ApplyScrapeNext
    \/ ApplyNorm

SpecText == InitText /\ [][NextText]_vars

----------------------------------------------------------------------------
(* The claims *)

\* C1. Idempotence of the Results pass: when the Results pass of the previous
\* invocation completed (every delivery and the save succeeded), no later save
\* of that invocation failed, and this invocation fetched the same fixtures
\* page, this invocation's Results pass posts no notification.
C1_Idempotence ==
    (prev.rDone /\ prev.exit # "save_error" /\ run.rFetch = "ok" /\ run.fixt = prev.fixt)
        => run.rPosts = 0

\* two results were posted over page F2, and a second, completed pass over F2
\* skipped them both
C1_Witness ==
    /\ prev.rDone /\ prev.exit = "ok" /\ prev.fixt = "F2"
    /\ run.rDone /\ run.fixt = "F2" /\ run.savesR = 1 /\ run.rPosts = 0
    /\ Cardinality(DeliveredIds("result")) = 2

\* C2. Post before record, for both event kinds: every id in the persisted
\* result id set or pregame id set is the id of a notification that was
\* delivered before, and the id whose delivery failed in an invocation is not
\* in the persisted set.
C2_PostBeforeRecord ==
    /\ load_state(file).state.posted \subseteq DeliveredIds("result")
    /\ load_state(file).state.pregame \subseteq DeliveredIds("pregame")
    /\ run.rFailed \cap load_state(file).state.posted = {}
    /\ run.pFailed \cap load_state(file).state.pregame = {}

\* a delivery of a result failed while ids of earlier deliveries are recorded
C2_Witness ==
    /\ run.exit = "delivery_error"
    /\ run.rFailed # {}
    /\ file.posted # {}

\* C3. A result whose notification was delivered in one invocation is never
\* notified again by a later invocation over the same page content, also when
\* the delivery of another result failed later in that invocation (no save
\* failed, the state file is writable).
C3_NoRenotify ==
    (saveFailed = {} /\ run.fixt = prev.fixt) =>
        \A id \in DeliveredIds("result") : Deliveries("result", id) <= 1

\* C4. With the state persisted between invocations (no save failed), at most
\* one notification is posted per (kickoff, opponent) pair over any sequence
\* of invocations.
C4_PregameAtMostOnce ==
    (saveFailed = {}) =>
        \A id \in DeliveredIds("pregame") : Deliveries("pregame", id) <= 1

\* the fixture was notified 23.5 hours before kickoff, and the invocation one
\* hour later found its id and returned
C4_Witness ==
    /\ run.pDup
    /\ clock = 1650
    /\ \E n \in 1..Len(outbox) :
           /\ outbox[n].kind = "pregame"
           /\ outbox[n].id = PreId(3000, "Tigers")
           /\ outbox[n].mins = 1410

\* C5, as claimed. A pregame notification is posted only when
\* hours-until-kickoff lies inside a band with a lower and an upper bound
\* (23 to 25 hours).
C5_InsideBand ==
    \A n \in 1..Len(outbox) :
        outbox[n].kind = "pregame" =>
            (23 * 60 <= outbox[n].mins /\ outbox[n].mins <= 25 * 60)

\* C5, amended. A pregame notification is posted only when
\* hours-until-kickoff is at most PREGAME_WINDOW_HOURS; there is no lower
\* bound.
C5_WithinThreshold ==
    \A n \in 1..Len(outbox) :
        outbox[n].kind = "pregame" => outbox[n].mins <= PREGAME_WINDOW_HOURS * 60

\* a notification posted exactly 24 hours before kickoff, and one posted two
\* hours before kickoff
C5_Witness ==
    /\ \E n \in 1..Len(outbox) : outbox[n].kind = "pregame" /\ outbox[n].mins = 1440
    /\ \E n \in 1..Len(outbox) : outbox[n].kind = "pregame" /\ outbox[n].mins = 120

\* C6. When the fetch of a pass fails, the pass posts nothing, neither loads
\* nor saves the state, leaves the file and the outbox as they are and returns
\* without raising: after the Results pass the Pregame pass starts, after the
\* Pregame pass the invocation ends normally.
C6_FetchFailureIsolated ==
    /\ [](run.rFetch = "failed" =>
              /\ run.rPosts = 0 /\ run.loadsR = 0 /\ run.savesR = 0
              /\ InSeq("pregame", run.passes))
    /\ [](run.pFetch = "failed" =>
              /\ run.pPosts = 0 /\ run.loadsP = 0 /\ run.savesP = 0
              /\ run.exit = "ok")
    /\ [][(run.rFetch # "failed" /\ run'.rFetch = "failed") =>
              (file' = file /\ outbox' = outbox /\ pc' = EntryPc("pregame"))]_vars
    /\ [][(run.pFetch # "failed" /\ run'.pFetch = "failed") =>
              (file' = file /\ outbox' = outbox /\ pc' = "idle")]_vars

\* the fixtures fetch failed and the Pregame pass of the same invocation posted
C6_Witness ==
    /\ run.rFetch = "failed"
    /\ run.pPosts = 1
    /\ pc = "idle" /\ run.exit = "ok"

\* C7, as claimed. An invocation that ran all its passes loaded the state
\* exactly once and saved it exactly once.
C7_OnceEach ==
    (pc = "idle" /\ run.exit = "ok") =>
        (run.loadsR + run.loadsP = 1 /\ run.savesR + run.savesP = 1)

\* the fixtures pages on which a result is detected
PagesWithResults == {name \in FixturePages : DetectResults(FixturesHtml(name)) # <<>>}

\* C7, amended. Each pass loads the state at most once and saves it at most
\* once, after its own load; the Results pass loads only when it detected a
\* result, the Pregame pass saves only after it posted.
C7_OncePerPass ==
    /\ run.loadsR <= 1 /\ run.savesR <= run.loadsR
    /\ run.loadsP <= 1 /\ run.savesP <= run.loadsP
    /\ run.loadsR = 1 => (run.rFetch = "ok" /\ run.fixt \in PagesWithResults)
    /\ run.savesP = 1 => run.pPosts = 1

\* an invocation that loaded twice and saved twice
C7_Witness ==
    /\ pc = "idle" /\ run.exit = "ok"
    /\ run.loadsR = 1 /\ run.savesR = 1
    /\ run.loadsP = 1 /\ run.savesP = 1

\* the state store can be read back: absent, or a document load_state accepts
Readable(f) == f.kind \in {"absent", "dict"}

\* C8. Monotonic id sets: while the state store is readable, no step removes
\* an id from the persisted result id set or from the persisted pregame id
\* set.
C8_Monotonic ==
    [][(Readable(file) /\ Readable(file')) =>
           /\ load_state(file).state.posted \subseteq load_state(file').state.posted
           /\ load_state(file).state.pregame \subseteq load_state(file').state.pregame]_vars

\* the Results pass saved over a store that held a pregame id, after a failed
\* homepage fetch
C8_Witness ==
    /\ runs = 2
    /\ run.savesR = 1 /\ run.savesP = 0 /\ run.pFetch = "failed"
    /\ file.posted # {} /\ file.pregame # {}

\* C9. Loading a missing or unreadable state store never aborts the run.
C9_LoadNeverAborts == run.exit # "load_error"

----------------------------------------------------------------------------
(* The text of the pages *)

\* C11: in the Results pass, when the windows of two neighbouring anchor lines
\* describe the same event (same opponent, same score), they yield the same
\* id, so that the results list of the run holds the event once and at most
\* one notification is posted for it.
C11_NeighboursCollapse ==
    output.fn = "results" =>
        LET lines == NormLines(input.text)
        IN  \A j \in 1..(Len(lines) - 1) :
                LET r1 == ResultOfLine(lines, j)
                    r2 == ResultOfLine(lines, j + 1)
                IN  (r1 # <<>> /\ r2 # <<>> /\ r1[1].message = r2[1].message) =>
                        /\ r1[1].id = r2[1].id
                        /\ Cardinality({n \in 1..Len(output.results) :
                               output.results[n].message = r1[1].message}) <= 1

----------------------------------------------------------------------------
(* The two reads of the clock *)

\* C18: whenever run_pregame posts a notification, the kickoff is strictly
\* after the clock value hours_to was computed from, and at most the threshold
\* away: 0 < hours_to <= PREGAME_WINDOW_HOURS, however the clock advanced
\* between the read in scrape_next_capitals_game and the read in run_pregame.
C18_KickoffAfterSecondRead ==
    \A n \in 1..Len(outbox) :
        outbox[n].kind = "pregame" =>
            /\ 0 < outbox[n].mins
            /\ outbox[n].mins <= PREGAME_WINDOW_HOURS * 60

----------------------------------------------------------------------------
(* A delivery failure in the Results pass *)

\* C19: if a delivery fails during the Results pass, the exception leaves
\* scrape_capitals_results: the invocation ends with an unhandled failure,
\* run_pregame is not executed in it, and posted.json is exactly what it was
\* when the invocation started.
C19_DeliveryFailureEndsInvocation ==
    run.rFailed # {} =>
        /\ pc = "idle"
        /\ run.exit = "delivery_error"
        /\ run.passes = <<"results">>
        /\ run.pFetch = "none" /\ run.loadsP = 0 /\ run.pPosts = 0 /\ run.savesP = 0
        /\ run.savesR = 0
        /\ file = prev.file

\* a delivery failed after another result of the same pass had been delivered
C19_Witness ==
    /\ run.rFailed # {}
    /\ run.rPosts > 0
    /\ run.exit = "delivery_error"

----------------------------------------------------------------------------
(* What each pass leaves alone *)

\* the positions of the program inside each pass
ResultsPcs == {"r_fetch", "r_load", "r_loop"}
PregamePcs == {"p_fetch", "p_check", "p_load", "p_post", "p_save"}

\* a pass that detected nothing: no result on the page, no upcoming game, or
\* a game outside the window
C20_NothingDetected(pass) ==
    IF pass = "results"
    THEN run.rFetch = "ok" /\ run.fixt \notin PagesWithResults
    ELSE run.pSeen \in {"nogame", "outside"}

----------------------------------------------------------------------------
(* The two extractors *)

\* the window holds a score token
HasScore(window) == \E n \in 1..Len(window) : window[n].k = "score"

\* the roster names that occur in the window
NamesIn(window) ==
    {KNOWN_TEAMS[i] : i \in {i \in 1..Len(KNOWN_TEAMS) :
        \E n \in 1..Len(window) : MatchesTeam(window[n], KNOWN_TEAMS[i])}}

\* C13: for every window text, the Fixture extractor and the Result
\* extractor never both match it: the Result extractor matches only when a
\* score token is present, the Fixture extractor only when none is.
C13_Exclusive ==
    output.fn = "extract" =>
        /\ ~(output.result # <<>> /\ output.candidate # <<>>)
        /\ output.result # <<>> => HasScore(input.text)
        /\ output.candidate # <<>> => ~HasScore(input.text)

\* a window with the two names, a score and a kickoff still to come: a
\* result, and no fixture
C13_Witness ==
    /\ output.fn = "extract"
    /\ output.result # <<>>
    /\ output.candidate = <<>>
    /\ \E n \in 1..Len(input.text) : input.text[n] = D(300)

\* the first roster name, in the order of KNOWN_TEAMS, among a set of names
FirstInRoster(names) ==
    KNOWN_TEAMS[CHOOSE i \in 1..Len(KNOWN_TEAMS) :
                    /\ KNOWN_TEAMS[i] \in names
                    /\ \A k \in 1..(i - 1) : KNOWN_TEAMS[k] \notin names]

\* C14: result extraction on a window.  An event is emitted if and only if
\* the window holds a score token and at least two distinct roster names, one
\* of them the tracked entity; its opponent is the first roster name other
\* than the tracked entity in the order of the roster, not of the text, and
\* its score the first score token; 'Capitals 3 - 2 Warriors' yields opponent
\* Warriors and score (3, 2).
C14_ResultExtraction ==
    output.fn = "extract" =>
        LET window == input.text
            names  == NamesIn(window)
            emits  == output.result # <<>>
        IN  /\ emits <=> /\ HasScore(window)
                         /\ "Capitals" \in names
                         /\ Cardinality(names) >= 2
            /\ emits =>
                   /\ Len(output.result) = 1
                   /\ output.result[1].message =
                          ResultMessage(FirstInRoster(names \ {"Capitals"}),
                                        window[ScoreSearch(window)].a,
                                        window[ScoreSearch(window)].b)
            /\ (window = <<W("Capitals"), S(3, 2), W("Warriors")>>) =>
                   /\ emits
                   /\ output.result[1].message = <<"Result Update", "Warriors", 3, 2>>

\* a window that names Tigers before Warriors: the opponent is Warriors, the
\* earlier of the two in the roster
C14_Witness ==
    /\ output.fn = "extract"
    /\ input.text = <<W("Capitals"), S(3, 2), W("Tigers"), W("Warriors")>>
    /\ output.result # <<>>
    /\ output.result[1].message = <<"Result Update", "Warriors", 3, 2>>

----------------------------------------------------------------------------
(* The anchor *)

\* C17: anchor rule.  A window is built, and an event emitted from it, only
\* for a line that holds the tracked name as an exact token in its own letter
\* case: a line where the name occurs only inside a longer word, or a window
\* where it is a token only in another letter case, never produces an event.
C17_ExactTokenAnchor ==
    output.fn = "extract" =>
        (output.lineResult # <<>> =>
             \E n \in 1..Len(input.text) : input.text[n] = W("Capitals"))

----------------------------------------------------------------------------
(* The fixture selected *)

\* the kickoffs of a window that strptime accepts and that are after now
FutureKickoffs(window, now) ==
    {window[n].a : n \in {n \in 1..Len(window) :
        window[n].k = "dt" /\ window[n].b = 1 /\ window[n].a > now}}

\* the least of a non-empty set of instants
MinOf(ts) == CHOOSE t \in ts : \A u \in ts : t <= u

\* a window a fixture is read from: no score, the tracked entity and another
\* roster name, a kickoff still to come
Qualifies(window, now) ==
    /\ ~HasScore(window)
    /\ "Capitals" \in NamesIn(window)
    /\ Cardinality(NamesIn(window)) >= 2
    /\ FutureKickoffs(window, now) # {}

\* the candidate kickoffs of the qualifying windows of a page
PageKickoffs(lines, now) ==
    {MinOf(FutureKickoffs(Window(lines, j, 8, 20), now)) :
        j \in {j \in 1..Len(lines) :
                  IsAnchor(lines[j]) /\ Qualifies(Window(lines, j, 8, 20), now)}}

\* C16: fixture selection.  For each qualifying window the candidate kickoff
\* is the earliest of the timestamps of the window that are strictly after
\* now; past timestamps and tokens that do not parse are left out and do not
\* abort the window.  The fixture returned by the scrape is the candidate
\* with the earliest kickoff over all windows.
C16_EarliestFixture ==
    /\ output.fn = "extract" =>
           /\ output.candidate # <<>> <=> Qualifies(input.text, input.now)
           /\ output.candidate # <<>> =>
                  /\ Len(output.candidate) = 1
                  /\ output.candidate[1].dt =
                         MinOf(FutureKickoffs(input.text, input.now))
    /\ output.fn = "scrape" =>
           LET kickoffs == PageKickoffs(NormLines(input.text), input.now)
           IN  /\ output.nxt.some <=> kickoffs # {}
               /\ output.nxt.some => output.nxt.dt = MinOf(kickoffs)

\* a homepage whose second fixture, out of the window of the first, is the
\* earlier one: it is the fixture returned
C16_Witness ==
    /\ output.fn = "scrape"
    /\ input.now = 150
    /\ Len(input.text) = 21
    /\ input.text[1][4] = D(300)
    /\ input.text[21][4] = D(200)
    /\ output.nxt.some
    /\ output.nxt.dt = 200

----------------------------------------------------------------------------
(* The normalized lines *)

\* the characters of a text that are not whitespace, in order
Ink(s) == SelectSeq(s, LAMBDA c : ~IsSpace(c))

\* the ink of each line of a raw text that has any, in order
InkedLines(text) ==
    LET inks == [n \in 1..Len(Split(text)) |-> Ink(Split(text)[n])]
    IN  SelectSeq(inks, LAMBDA x : x # <<>>)

\* C15: for any input text, the normalized line sequence holds no empty
\* string and no line with two consecutive spaces or with whitespace at
\* either end, and the non-empty lines of the input are all there, in their
\* original order.
C15_NormalizedLines ==
    output.fn = "norm" =>
        /\ \A n \in 1..Len(output.lines) :
               LET line == output.lines[n]
               IN  /\ line # <<>>
                   /\ ~IsSpace(line[1]) /\ ~IsSpace(line[Len(line)])
                   /\ \A k \in 1..(Len(line) - 1) :
                          ~(line[k] = " " /\ line[k + 1] = " ")
        /\ [n \in 1..Len(output.lines) |-> Ink(output.lines[n])] = InkedLines(input.text)
        /\ Flatten(InkedLines(input.text)) = Ink(input.text)

\* a text with a blank line between two lines, the first indented: two lines
\* come out, in order, the first without its indent
C15_Witness ==
    /\ output.fn = "norm"
    /\ input.text = <<" ", "b", "\n", "\n", "a">>
    /\ output.lines = << <<"b">>, <<"a">> >>

----------------------------------------------------------------------------
(* Delivery in the end *)

\* C12: eventual delivery by re-invocation.  The page keeps showing its
\* results, invocations recur, and a delivery that is attempted again and
\* again succeeds in the end: then every detected result is notified and its
\* id recorded in the persisted result id set in the end.
C12_EventualDelivery ==
    <>(\A id \in DetectedIds("F2") :
           /\ id \in DeliveredIds("result")
           /\ id \in load_state(file).state.posted)

\* the same, for a state store load_state does not raise on
C12_EventualDeliveryReadable ==
    (file.kind # "nondict") => C12_EventualDelivery

====
